---- MODULE Spec2Model ----
(***************************************************************************)
(* Model of the pushdown-automaton engine of pda.py: construction of a    *)
(* PDA (validate_self) and the breadth-first acceptance query             *)
(* (validate_input).                                                       *)
(*                                                                         *)
(* A configuration is <<state, stack, index>>; a stack is a sequence of    *)
(* stack symbols whose LAST element is the top; index is the 0-based       *)
(* cursor of the source.  The empty string "" is the epsilon input symbol  *)
(* and the empty sequence << >> is the empty replacement ''.               *)
(***************************************************************************)
EXTENDS Integers, Sequences, FiniteSets, TLC

VARIABLES
    params,     \* keyword arguments handed to PDA(**kwargs)
    self,       \* attributes of the PDA object
    pc,         \* "new", "failed", "idle", "loop", "returned", "raised"
    raised,     \* kind of the exception that ended the last operation
    input_str,  \* validate_input: the input string
    states,     \* validate_input: the deque of configurations
    visited,    \* validate_input: the visited set
    result,     \* validate_input: the returned value
    target,     \* the object validate_input is called on: "self" or "clone"
    clone,      \* attributes of the PDA built by PDA(self)
    clone_pc,   \* "none", "ok" (PDA(self) returned), "failed" (it raised)
    clone_raised, \* kind of the exception that ended PDA(self)
    refs,       \* for each object and mutable attribute, the container held
    mutated,    \* "no", or when a container was changed by the caller
    stack_ids   \* which stack object each configuration of the call holds

vars == <<params, self, pc, raised, input_str, states, visited, result, target, clone, clone_pc, clone_raised, refs, mutated, stack_ids>>

\* Longest input string handed to validate_input.
MaxInputLen == 4

NoError == "none"
\* The class of src/exc.py that lines 81, 89 and 96 name. pda.py never gets
\* hold of it: nothing imports src/exc.py, and `import exceptions` (line 7)
\* binds the builtin module of the interpreter the first line names, so no
\* operation of PDA ends with this kind.
InvalidSymbolError == "InvalidSymbolError"
InvalidStateError == "InvalidStateError"
\* The kind the determinism check is documented to raise; src/exc.py defines
\* no class of this name, so no operation ends with it.
NondeterminismError == "NondeterminismError"
\* What leaves the constructor when line 62, 81, 89 or 96 looks up its
\* exception class in the module bound at line 7: the builtin exceptions
\* module has neither NondeterminismError nor InvalidSymbolError, the
\* lookup fails before anything is raised, and the failure is a builtin
\* AttributeError.
AttributeError == "AttributeError"
EmptyStackError == "EmptyStackError"

-----------------------------------------------------------------------------
(* The formal parameters explored.                                         *)

\* One table entry: from src on inp with key on top go to nxt, replacing
\* the top by repl.
Rule(src, inp, key, nxt, repl) ==
    [src |-> src, inp |-> inp, key |-> key, nxt |-> nxt, repl |-> repl]

\* The transitions dict in which every rule of rs is an alternative of its
\* own, alternatives of one (state, input symbol) kept in the order of rs.
TableOf(rs) ==
    LET srcs == {rs[k].src : k \in DOMAIN rs}
        inps(s) == {rs[k].inp : k \in {j \in DOMAIN rs : rs[j].src = s}}
        alts(s, i) ==
            LET Here(r) == r.src = s /\ r.inp = i
                f == SelectSeq(rs, Here)
            IN  [k \in 1..Len(f) |-> (f[k].key :> <<f[k].nxt, f[k].repl>>)]
    IN  [s \in srcs |-> [i \in inps(s) |-> alts(s, i)]]

Definition(sts, ins, sks, tr, q, z, fin) ==
    [states |-> sts, input_symbols |-> ins, stack_symbols |-> sks,
     transitions |-> tr, initial_state |-> q, initial_stack_symbol |-> z,
     final_states |-> fin]

\* Balanced parentheses: push P on "(", pop P on ")", and a non-consuming
\* move to q1 while the top is Z.
BalancedParens ==
    Definition({"q0", "q1"}, {"(", ")"}, {"Z", "P"},
        "q0" :> ( ("(" :> << ("Z" :> <<"q0", <<"Z", "P">> >>)
                             @@ ("P" :> <<"q0", <<"P", "P">> >>) >>)
               @@ (")" :> << ("P" :> <<"q0", << >> >>) >>)
               @@ (""  :> << ("Z" :> <<"q1", <<"Z">> >>) >>) ),
        "q0", "Z", {"q0", "q1"})

\* The same push and pop moves with no epsilon move at all.
ParensNoLambda ==
    Definition({"q0", "q1"}, {"(", ")"}, {"Z", "P"},
        "q0" :> ( ("(" :> << ("Z" :> <<"q0", <<"Z", "P">> >>)
                             @@ ("P" :> <<"q0", <<"P", "P">> >>) >>)
               @@ (")" :> << ("P" :> <<"q0", << >> >>) >>) ),
        "q0", "Z", {"q0", "q1"})

\* An epsilon-cycle q0 -> q1 -> q0 from which the final state is never
\* reached.
EpsilonCycle ==
    Definition({"q0", "q1", "qf"}, {"(", ")"}, {"Z", "P"},
        TableOf(<< Rule("q0", "", "Z", "q1", <<"Z">>),
                   Rule("q1", "", "Z", "q0", <<"Z">>) >>),
        "q0", "Z", {"qf"})

\* Two alternatives on "(": one empties the stack, the other reaches the
\* final state q1 after a second "(".
EmptyStackBranch ==
    Definition({"q0", "q1"}, {"(", ")"}, {"Z", "P"},
        ( "q0" :> ("(" :> << ("Z" :> <<"q0", << >> >>),
                             ("Z" :> <<"q1", <<"Z">> >>) >>) )
        @@ ( "q1" :> ("(" :> << ("Z" :> <<"q1", <<"Z">> >>) >>) ),
        "q0", "Z", {"q1"})

\* An epsilon alternative keyed on the undeclared stack symbol X, beside an
\* epsilon alternative that is also an alternative of "(".
UndeclaredKeyBesideSibling ==
    Definition({"q0", "q1"}, {"("}, {"Z", "P"},
        "q0" :> ( (""  :> << ("X" :> <<"q0", << >> >>),
                             ("Z" :> <<"q0", << >> >>) >>)
               @@ ("(" :> << ("Z" :> <<"q0", << >> >>) >>) ),
        "q0", "Z", {"q1"})

\* The same alternative, keyed on the undeclared stack symbol X, under the
\* epsilon symbol and under "(".
UndeclaredKeyTwice ==
    Definition({"q0", "q1"}, {"("}, {"Z", "P"},
        "q0" :> ( (""  :> << ("X" :> <<"q0", << >> >>) >>)
               @@ ("(" :> << ("X" :> <<"q0", << >> >>) >>) ),
        "q0", "Z", {"q1"})

Curated ==
    {BalancedParens, ParensNoLambda, EpsilonCycle, EmptyStackBranch,
     UndeclaredKeyBesideSibling, UndeclaredKeyTwice}

\* Entries over declared states and symbols only.
GoodRules ==
    {Rule(s, i, k, n, r) :
        s \in {"q0", "q1"}, i \in {"", "("}, k \in {"Z", "P"},
        n \in {"q0", "q1"}, r \in {<< >>, <<"Z", "P">>}}

\* Entries that may name the undeclared state "q9", the undeclared input
\* symbol "x" or the undeclared stack symbol "X".
AnyRules ==
    {Rule(s, i, k, n, r) :
        s \in {"q0", "q9"}, i \in {"", "(", "x"}, k \in {"Z", "X"},
        n \in {"q1", "q9"}, r \in {<<"Z">>, <<"Z", "X">>}}

Generated ==
    {Definition({"q0", "q1"}, {"("}, {"Z", "P"}, TableOf(rs),
                "q0", "Z", {"q1"}) :
        rs \in {<< >>} \cup {<<r>> : r \in GoodRules}
                       \cup {<<r1, r2>> : r1 \in GoodRules, r2 \in GoodRules}}
    \cup
    {Definition({"q0", "q1"}, {"("}, {"Z", "P"}, TableOf(<<r>>),
                q, z, fin) :
        r \in AnyRules, q \in {"q0", "q9"}, z \in {"Z", "X"},
        fin \in {{"q1"}, {"q1", "q9"}}}

Definitions == Curated \cup Generated

RECURSIVE Words(_, _)
Words(alphabet, n) ==
    IF n = 0 THEN {<< >>}
    ELSE LET shorter == Words(alphabet, n - 1)
         IN  shorter \cup {Append(w, c) : w \in shorter, c \in alphabet}

Inputs == Words({"(", ")"}, MaxInputLen)

-----------------------------------------------------------------------------
(* Construction: validate_self.  Every check yields the kind of the error   *)
(* it raises, or NoError.  Python iterates a dict in an order the table     *)
(* does not fix, so a loop over dict items yields the set of the errors     *)
(* that can be raised first.                                                *)

\* The first error of a list of checks run in order.
RECURSIVE FirstError(_)
FirstError(errs) ==
    IF errs = << >> THEN NoError
    ELSE IF Head(errs) # NoError THEN Head(errs)
    ELSE FirstError(Tail(errs))

\* The first non-empty set of a list of error sets.
RECURSIVE FirstErrors(_)
FirstErrors(sets) ==
    IF sets = << >> THEN {}
    ELSE IF Head(sets) # {} THEN Head(sets)
    ELSE FirstErrors(Tail(sets))

_validate_transition_invalid_input_symbols(slf, start_state, input_symbol) ==
    IF input_symbol \notin slf.input_symbols /\ input_symbol # ""
    THEN AttributeError ELSE NoError

_validate_transition_invalid_stack_symbols(slf, start_state, stack_symbol) ==
    IF stack_symbol \notin slf.stack_symbols
    THEN AttributeError ELSE NoError

_validate_initial_stack_symbol(slf) ==
    IF slf.initial_stack_symbol \notin slf.stack_symbols
    THEN AttributeError ELSE NoError

\* Automaton._validate_initial_state
_validate_initial_state(slf) ==
    IF slf.initial_state \notin slf.states
    THEN InvalidStateError ELSE NoError

\* Automaton._validate_final_states
_validate_final_states(slf) ==
    IF slf.final_states \ slf.states # {}
    THEN InvalidStateError ELSE NoError

\* sib_path is the list of alternatives of a sibling input symbol; each of
\* its elements (a whole alternative) is looked up in the list of epsilon
\* alternatives of start_state.
_validate_transition_lambda_transition_sibling(slf, start_state, sib_path) ==
    IF \E k \in DOMAIN sib_path :
           \E j \in DOMAIN slf.transitions[start_state][""] :
               sib_path[k] = slf.transitions[start_state][""][j]
    THEN AttributeError ELSE NoError

_validate_transition_isolated_lambda_transitions(slf, start_state, input_symbol, stack_symbol) ==
    IF input_symbol = ""
    THEN LET sib_transitions == slf.transitions[start_state]
         IN  IF \E sib_input_symbol \in DOMAIN sib_transitions :
                    /\ sib_input_symbol # ""
                    /\ _validate_transition_lambda_transition_sibling(
                           slf, start_state,
                           sib_transitions[sib_input_symbol]) # NoError
             THEN AttributeError ELSE NoError
    ELSE NoError

\* The errors the loops over one input symbol of start_state can raise.
SymbolPathsErrors(slf, start_state, input_symbol, symbol_paths) ==
    LET OfKey(stack_symbol) ==
            FirstError(<<
                _validate_transition_isolated_lambda_transitions(
                    slf, start_state, input_symbol, stack_symbol),
                _validate_transition_invalid_stack_symbols(
                    slf, start_state, stack_symbol) >>)
        OfPath(symbol_path) ==
            {OfKey(k) : k \in DOMAIN symbol_path} \ {NoError}
        OfInput == _validate_transition_invalid_input_symbols(
                       slf, start_state, input_symbol)
    IN  IF OfInput # NoError THEN {OfInput}
        ELSE FirstErrors([k \in DOMAIN symbol_paths |->
                             OfPath(symbol_paths[k])])

_validate_transition_invalid_symbols(slf, start_state, paths) ==
    UNION {SymbolPathsErrors(slf, start_state, input_symbol,
                             paths[input_symbol]) :
              input_symbol \in DOMAIN paths}

\* The kinds of error validate_self can raise; empty when it returns True.
validate_self(slf) ==
    FirstErrors(<<
        UNION {_validate_transition_invalid_symbols(
                   slf, start_state, slf.transitions[start_state]) :
                  start_state \in DOMAIN slf.transitions},
        {_validate_initial_state(slf)} \ {NoError},
        {_validate_initial_stack_symbol(slf)} \ {NoError},
        {_validate_final_states(slf)} \ {NoError} >>)

\* copy / deepcopy of the formal parameters into the attributes.
_init_from_formal_params(p) ==
    [states |-> p.states, input_symbols |-> p.input_symbols,
     stack_symbols |-> p.stack_symbols, transitions |-> p.transitions,
     initial_state |-> p.initial_state,
     initial_stack_symbol |-> p.initial_stack_symbol,
     final_states |-> p.final_states]

\* The attributes that hold a mutable container (sets and the dict).
MutableFields ==
    {"states", "input_symbols", "stack_symbols", "transitions",
     "final_states"}

\* The attributes assigned without copy() or deepcopy(): the new object
\* holds the very containers it was given.
SharedContainers(owner, given) == given

\* Lines 35-41: copy() and deepcopy() return new containers, so every
\* mutable attribute of the object under construction holds a container
\* of its own, whatever containers were given.
CopiedContainers(owner, given) == [f \in MutableFields |-> owner]

\* Lines 22-29: the attributes of pda are handed to __init__ as keyword
\* arguments, which takes the path of _init_from_formal_params.
_init_from_pda(pda) ==
    _init_from_formal_params(
        Definition(pda.states, pda.input_symbols, pda.stack_symbols,
                   pda.transitions, pda.initial_state,
                   pda.initial_stack_symbol, pda.final_states))

-----------------------------------------------------------------------------
(* PDAStack: a sequence of stack symbols, the top being the last element.   *)

\* The last symbol; an empty stack has no top and the call fails.
top(stack) ==
    IF stack = << >> THEN EmptyStackError ELSE stack[Len(stack)]

pop(stack) == SubSeq(stack, 1, Len(stack) - 1)

\* Remove the top and append the symbols in order.
replace(stack, symbols) == pop(stack) \o symbols

\* A replacement that pushes the symbols without removing the top.
PushOntoTop(stack, new_stack_top) == stack \o new_stack_top

_replace_stack_top(stack, new_stack_top) ==
    IF new_stack_top = << >> THEN pop(stack)
    ELSE replace(stack, new_stack_top)

\* stack.copy() returns a new stack object with the same symbols: the
\* symbols are carried by the configurations, the object by its number.
copy(stack_id, fresh_id) == fresh_id

\* The positions of the TRUE entries of a sequence of booleans, in order.
Enqueued(copies) ==
    SelectSeq([k \in 1..Len(copies) |-> k], LAMBDA k : copies[k])

\* A pass of the loop that changes the stack of the expanded configuration
\* in place and enqueues that very object with every successor.
StackObjectsShared(ids, copies, known) ==
    [deque |-> Tail(ids.deque) \o
                   [j \in 1..Len(Enqueued(copies)) |-> Head(ids.deque)],
     visited |-> IF known THEN ids.visited
                 ELSE ids.visited \cup {Head(ids.deque)},
     next |-> ids.next]

\* Which stack objects the deque and the visited set hold after one pass of
\* the loop. copies has one entry for each stack.copy() of the pass (lines
\* 139 and 157), TRUE when the successor built on that copy was appended to
\* the deque (lines 143 and 161); objects are numbered as they are created.
\* known says that a configuration equal to the dequeued one is in the
\* visited set already: visited.add (line 125) then keeps the element it
\* has, with its stack object, and the dequeued object is dropped.
StackObjects(ids, copies, known) ==
    [deque |-> Tail(ids.deque) \o
                   [j \in 1..Len(Enqueued(copies)) |->
                       copy(Head(ids.deque),
                            ids.next + Enqueued(copies)[j] - 1)],
     visited |-> IF known THEN ids.visited
                 ELSE ids.visited \cup {Head(ids.deque)},
     next |-> ids.next + Len(copies)]

-----------------------------------------------------------------------------
(* The query: validate_input.                                               *)

InitialConfiguration(slf) ==
    <<slf.initial_state, <<slf.initial_stack_symbol>>, 0>>

\* IsAccepting without the comparison of the cursor with the input length.
IsAcceptingAnyCursor(slf, w, state, index) ==
    state \in slf.final_states

\* Line 127: the dequeued configuration ends the search with True.
IsAccepting(slf, w, state, index) ==
    index = Len(w) /\ state \in slf.final_states

\* The alternatives of state for input_symbol; none when either key is
\* missing from the transitions.
Paths(slf, state, input_symbol) ==
    IF state \in DOMAIN slf.transitions
       /\ input_symbol \in DOMAIN slf.transitions[state]
    THEN slf.transitions[state][input_symbol]
    ELSE << >>

\* A successor whose cursor is one past the cursor it was given.
SuccessorPastCursor(path, stack, new_index) ==
    <<path[top(stack)][1],
      _replace_stack_top(stack, path[top(stack)][2]),
      new_index + 1>>

\* The successor configuration of one alternative that has stack_symbol
\* as a key.
Successor(path, stack, new_index) ==
    LET new_state == path[top(stack)][1]
        new_stack_top == path[top(stack)][2]
    IN  <<new_state, _replace_stack_top(stack, new_stack_top), new_index>>

\* Lines 155-162: the deque after the loop over the alternatives of the
\* input symbol; vis does not change while the loop runs.
RECURSIVE SymbolLoop(_, _, _, _, _)
SymbolLoop(paths, stack, index, vis, queue) ==
    IF paths = << >> THEN queue
    ELSE LET path == Head(paths)
             new == Successor(path, stack, index + 1)
         IN  IF top(stack) \in DOMAIN path /\ new \notin vis
             THEN SymbolLoop(Tail(paths), stack, index, vis,
                             Append(queue, new))
             ELSE SymbolLoop(Tail(paths), stack, index, vis, queue)

\* Lines 137-146: the first epsilon alternative keyed on the stack top, 0
\* when there is none.
FirstLambdaPath(paths, stack_symbol) ==
    LET matching == {k \in DOMAIN paths : stack_symbol \in DOMAIN paths[k]}
    IN  IF matching = {} THEN 0
        ELSE CHOOSE k \in matching : \A j \in matching : k <= j

Outcome(p, r, e, q, v) ==
    [pc |-> p, result |-> r, raised |-> e, states |-> q, visited |-> v]

\* One pass through the body of the while loop (lines 124-162).
LoopBody(slf, w, deque, vis) ==
    LET state == Head(deque)[1]
        stack == Head(deque)[2]
        index == Head(deque)[3]
        rest == Tail(deque)
        vis1 == vis \cup {Head(deque)}
    IN  IF IsAccepting(slf, w, state, index)
        THEN Outcome("returned", TRUE, NoError, rest, vis1)
        ELSE IF index > Len(w)
        THEN Outcome("loop", FALSE, NoError, rest, vis1)
        ELSE IF top(stack) = EmptyStackError
        THEN Outcome("raised", FALSE, EmptyStackError, rest, vis1)
        ELSE
        LET lambda == Paths(slf, state, "")
            k == FirstLambdaPath(lambda, top(stack))
        IN  IF k # 0
            THEN LET new == Successor(lambda[k], stack, index)
                 IN  Outcome("returned", FALSE, NoError,
                             IF new \notin vis1 THEN Append(rest, new)
                             ELSE rest,
                             vis1)
            ELSE IF index = Len(w)
            THEN Outcome("loop", FALSE, NoError, rest, vis1)
            ELSE Outcome("loop", FALSE, NoError,
                         SymbolLoop(Paths(slf, state, w[index + 1]),
                                    stack, index, vis1, rest),
                         vis1)

\* The calls of stack.copy() in one pass through the body of the loop, in
\* order: one for the first epsilon alternative keyed on the stack top
\* (line 139), or else one for each alternative of the input symbol keyed
\* on the stack top (line 157); the entry is TRUE when the successor built
\* on the copy was not in visited and was appended (lines 142-143, 160-161).
Copies(slf, w, deque, vis) ==
    LET state == Head(deque)[1]
        stack == Head(deque)[2]
        index == Head(deque)[3]
        vis1 == vis \cup {Head(deque)}
    IN  IF IsAccepting(slf, w, state, index) \/ index > Len(w)
           \/ top(stack) = EmptyStackError
        THEN << >>
        ELSE
        LET lambda == Paths(slf, state, "")
            k == FirstLambdaPath(lambda, top(stack))
        IN  IF k # 0
            THEN <<Successor(lambda[k], stack, index) \notin vis1>>
            ELSE IF index = Len(w) THEN << >>
            ELSE LET paths == Paths(slf, state, w[index + 1])
                     keyed == SelectSeq([n \in 1..Len(paths) |-> n],
                                  LAMBDA n : top(stack) \in DOMAIN paths[n])
                 IN  [j \in 1..Len(keyed) |->
                         Successor(paths[keyed[j]], stack, index + 1)
                             \notin vis1]

\* validate_input as a whole: the loop run from a fresh deque and a fresh
\* visited set to its end; yields <<how it ended, value returned, error>>.
RECURSIVE WhileLoop(_, _, _, _)
WhileLoop(slf, w, deque, vis) ==
    IF deque = << >> THEN <<"returned", FALSE, NoError>>
    ELSE LET out == LoopBody(slf, w, deque, vis)
         IN  IF out.pc = "loop"
             THEN WhileLoop(slf, w, out.states, out.visited)
             ELSE <<out.pc, out.result, out.raised>>

validate_input(slf, w) ==
    WhileLoop(slf, w, <<InitialConfiguration(slf)>>, {})

-----------------------------------------------------------------------------
(* The state machine.                                                       *)

NoPDA == Definition({}, {}, {}, << >>, "", "", {})

NoContainers == [f \in MutableFields |-> "none"]

\* The object a call of validate_input runs on.
Target == IF target = "self" THEN self ELSE clone

\* f.clear(), seen through every attribute that holds the container.
Cleared(obj, name, f, container) ==
    IF refs[name][f] # container THEN obj
    ELSE IF f = "transitions" THEN [obj EXCEPT !.transitions = << >>]
    ELSE [obj EXCEPT ![f] = {}]

Init ==
    /\ params \in Definitions
    /\ self = NoPDA
    /\ pc = "new"
    /\ raised = NoError
    /\ input_str = << >>
    /\ states = << >>
    /\ visited = {}
    /\ result = FALSE
    /\ target = "self"
    /\ clone = NoPDA
    /\ clone_pc = "none"
    /\ clone_raised = NoError
    /\ refs = [o \in {"params", "self", "clone"} |->
                   IF o = "params" THEN [f \in MutableFields |-> "params"]
                   ELSE NoContainers]
    /\ mutated = "no"
    /\ stack_ids = [deque |-> << >>, visited |-> {}, next |-> 0]

\* PDA(**params): the attributes are copied, then validate_self runs.
Construct ==
    /\ pc = "new"
    /\ self' = _init_from_formal_params(params)
    /\ LET errors == validate_self(self')
       IN  IF errors = {}
           THEN pc' = "idle" /\ raised' = NoError
           ELSE pc' = "failed" /\ raised' \in errors
    /\ refs' = [refs EXCEPT
                   !["self"] = CopiedContainers("self", refs["params"])]
    /\ UNCHANGED <<params, input_str, states, visited, result, target, clone, clone_pc, clone_raised, mutated, stack_ids>>

\* PDA(self): _init_from_pda copies the attributes of self into a new
\* object and validate_self runs on it.
CopyConstruct ==
    /\ pc \in {"idle", "returned", "raised"}
    /\ clone_pc = "none"
    /\ clone' = _init_from_pda(self)
    /\ LET errors == validate_self(clone')
       IN  IF errors = {}
           THEN clone_pc' = "ok" /\ clone_raised' = NoError
           ELSE clone_pc' = "failed" /\ clone_raised' \in errors
    /\ refs' = [refs EXCEPT
                   !["clone"] = CopiedContainers("clone", refs["self"])]
    /\ UNCHANGED <<params, self, pc, raised, input_str, states, visited, result, target, mutated, stack_ids>>

\* The caller clears the container that attribute f of object o holds,
\* once, before any call of validate_input.
Mutate(o, f) ==
    /\ pc = "idle"
    /\ mutated = "no"
    /\ o = "clone" => clone_pc = "ok"
    /\ clone_pc # "failed"
    /\ self' = Cleared(self, "self", f, refs[o][f])
    /\ clone' = IF clone_pc = "ok"
                THEN Cleared(clone, "clone", f, refs[o][f]) ELSE clone
    /\ mutated' = IF clone_pc = "none" THEN "before_copy" ELSE "after_copy"
    /\ UNCHANGED <<params, pc, raised, input_str, states, visited, result, target, clone_pc, clone_raised, refs, stack_ids>>

\* A call that starts from a fresh deque but keeps the visited set of the
\* call before it.
CallKeepingVisited(w, t) ==
    /\ pc \in {"idle", "returned", "raised"}
    /\ mutated = "no"
    /\ t = "clone" => clone_pc = "ok"
    /\ target' = t
    /\ input_str' = w
    /\ states' = <<InitialConfiguration(IF t = "self" THEN self ELSE clone)>>
    /\ pc' = "loop"
    /\ raised' = NoError
    /\ result' = FALSE
    /\ stack_ids' = [deque |-> <<0>>, visited |-> {}, next |-> 1]
    /\ UNCHANGED <<params, self, clone, clone_pc, clone_raised, refs, mutated, visited>>

\* validate_input(w) is called on object t: lines 119-121.
Call(w, t) ==
    /\ pc \in {"idle", "returned", "raised"}
    /\ mutated = "no"
    /\ t = "clone" => clone_pc = "ok"
    /\ target' = t
    /\ input_str' = w
    /\ states' = <<InitialConfiguration(IF t = "self" THEN self ELSE clone)>>
    /\ visited' = {}
    /\ pc' = "loop"
    /\ raised' = NoError
    /\ result' = FALSE
    /\ stack_ids' = [deque |-> <<0>>, visited |-> {}, next |-> 1]
    /\ UNCHANGED <<params, self, clone, clone_pc, clone_raised, refs, mutated>>

\* One iteration of the while loop.
Iterate ==
    /\ pc = "loop"
    /\ states # << >>
    /\ LET out == LoopBody(Target, input_str, states, visited)
       IN  /\ pc' = out.pc
           /\ result' = out.result
           /\ raised' = out.raised
           /\ states' = out.states
           /\ visited' = out.visited
           /\ stack_ids' = StackObjects(stack_ids,
                  Copies(Target, input_str, states, visited),
                  Head(states) \in visited)
    /\ UNCHANGED <<params, self, input_str, target, clone, clone_pc, clone_raised, refs, mutated>>

\* The deque is empty: line 164.
Exhausted ==
    /\ pc = "loop"
    /\ states = << >>
    /\ pc' = "returned"
    /\ result' = FALSE
    /\ UNCHANGED <<params, self, raised, input_str, states, visited, target, clone, clone_pc, clone_raised, refs, mutated, stack_ids>>

Next ==
    \/ Construct
    \/ CopyConstruct
    \/ \E o \in {"self", "clone"}, f \in MutableFields : Mutate(o, f)
    \/ \E w \in Inputs, t \in {"self", "clone"} : Call(w, t)
    \/ Iterate
    \/ Exhausted

Spec == Init /\ [][Next]_vars

\* A call, once started, runs to its end.
FairSpec == Spec /\ WF_vars(Iterate) /\ WF_vars(Exhausted)

TypeOK ==
    /\ pc \in {"new", "failed", "idle", "loop", "returned", "raised"}
    /\ result \in BOOLEAN
    /\ input_str \in Inputs

-----------------------------------------------------------------------------
(* The moves of the automaton, stated independently of the search: every    *)
(* alternative keyed on the stack top applies, epsilon moves keep the       *)
(* cursor and consuming moves advance it.                                   *)

Moves(slf, w, c) ==
    LET state == c[1]
        stack == c[2]
        index == c[3]
        Via(input_symbol, new_index) ==
            IF stack = << >> \/ state \notin DOMAIN slf.transitions
               \/ input_symbol \notin DOMAIN slf.transitions[state]
            THEN {}
            ELSE LET alts == slf.transitions[state][input_symbol]
                     X == stack[Len(stack)]
                 IN  {<<alts[k][X][1],
                        SubSeq(stack, 1, Len(stack) - 1) \o alts[k][X][2],
                        new_index>> :
                         k \in {j \in DOMAIN alts : X \in DOMAIN alts[j]}}
    IN  Via("", index)
        \cup (IF index < Len(w) THEN Via(w[index + 1], index + 1) ELSE {})

\* The greatest number of symbols one move adds to the stack.
Growth(slf) ==
    LET tr == slf.transitions
        repls == UNION {UNION {UNION {
                     {tr[s][i][k][x][2] : x \in DOMAIN tr[s][i][k]} :
                         k \in DOMAIN tr[s][i]} :
                         i \in DOMAIN tr[s]} :
                         s \in DOMAIN tr}
    IN  IF repls = {} THEN 0
        ELSE Len(CHOOSE r \in repls : \A q \in repls : Len(q) <= Len(r))

RECURSIVE Closure(_, _, _, _)
Closure(slf, w, depth, found) ==
    LET more == {c \in UNION {Moves(slf, w, d) : d \in found} :
                    Len(c[2]) <= depth}
    IN  IF more \subseteq found THEN found
        ELSE Closure(slf, w, depth, found \cup more)

\* The configurations reachable from the initial one through stacks no
\* deeper than any stack the search can build for w.
Reachable(slf, w) ==
    Closure(slf, w, 1 + (Len(w) + 1) * Growth(slf),
            {InitialConfiguration(slf)})

AcceptingReachable(slf, w) ==
    \E c \in Reachable(slf, w) :
        c[3] = Len(w) /\ c[1] \in slf.final_states

InQuery == pc \in {"loop", "returned", "raised"}

Constructed == pc # "new"

\* Every <<state, input symbol, alternative number, stack key>> of a table.
Entries(tr) ==
    UNION {UNION {UNION {
        {<<s, i, k, x>> : x \in DOMAIN tr[s][i][k]} :
            k \in DOMAIN tr[s][i]} :
            i \in DOMAIN tr[s]} :
            s \in DOMAIN tr}

\* Some entry has an undeclared source state or an undeclared next state.
RefersToUndeclaredState(p) ==
    \E e \in Entries(p.transitions) :
        \/ e[1] \notin p.states
        \/ p.transitions[e[1]][e[2]][e[3]][e[4]][1] \notin p.states

\* Some replacement sequence holds an undeclared stack symbol.
ReplacesByUndeclaredSymbol(p) ==
    \E e \in Entries(p.transitions) :
        LET repl == p.transitions[e[1]][e[2]][e[3]][e[4]][2]
        IN  \E n \in DOMAIN repl : repl[n] \notin p.stack_symbols

\* Some state has an epsilon move and a non-epsilon move keyed on the same
\* stack symbol.
SharesStackKey(p) ==
    \E e \in Entries(p.transitions), f \in Entries(p.transitions) :
        e[1] = f[1] /\ e[2] = "" /\ f[2] # "" /\ e[4] = f[4]

\* Every symbol the parameters mention is declared.
SymbolsDeclared(p) ==
    /\ ~ReplacesByUndeclaredSymbol(p)
    /\ \A e \in Entries(p.transitions) :
           e[2] \in p.input_symbols \cup {""} /\ e[4] \in p.stack_symbols
    /\ p.initial_stack_symbol \in p.stack_symbols

\* Every state the parameters mention is declared.
StatesDeclared(p) ==
    /\ ~RefersToUndeclaredState(p)
    /\ p.initial_state \in p.states
    /\ p.final_states \subseteq p.states

AllDeclared(p) == SymbolsDeclared(p) /\ StatesDeclared(p)

\* Some entry is keyed on an undeclared input symbol other than epsilon or
\* on an undeclared stack symbol.
UndeclaredKey(p) ==
    \E e \in Entries(p.transitions) :
        e[2] \notin p.input_symbols \cup {""} \/ e[4] \notin p.stack_symbols

UndeclaredKeyOrInitialSymbol(p) ==
    UndeclaredKey(p) \/ p.initial_stack_symbol \notin p.stack_symbols

\* Some alternative of a non-epsilon symbol of a state is, as a whole, one
\* of the epsilon alternatives of that state.
AlternativeBesideLambda(p) ==
    \E e \in Entries(p.transitions), f \in Entries(p.transitions) :
        /\ e[1] = f[1] /\ e[2] = "" /\ f[2] # ""
        /\ p.transitions[f[1]][f[2]][f[3]] \in
               {p.transitions[e[1]][""][k] :
                    k \in DOMAIN p.transitions[e[1]][""]}

-----------------------------------------------------------------------------
(* Claims.                                                                  *)

\* C1: every call of validate_input on a validated Definition ends by
\* returning True or False after finitely many dequeues.
C1_Terminates == (pc = "loop") ~> (pc = "returned")

\* C2: if an accepting configuration (cursor = len(input), state final) is
\* reachable from the initial configuration, validate_input returns True;
\* it returns False only when none is reachable.
C2_Completeness ==
    (pc = "returned" /\ AcceptingReachable(self, input_str)) =>
        result = TRUE

\* C3: validate_input returns True only if a configuration with cursor =
\* len(input) and state in final_states was dequeued, and every dequeued
\* configuration is reachable from the initial configuration by the
\* transitions of the Definition.
C3_Soundness ==
    /\ (pc = "returned" /\ result = TRUE) =>
           \E c \in visited :
               c[3] = Len(input_str) /\ c[1] \in self.final_states
    /\ InQuery => visited \subseteq Reachable(self, input_str)

\* C3 witness: True was returned after a search that dequeued several
\* configurations and consumed input.
C3_Witness ==
    /\ pc = "returned" /\ result = TRUE
    /\ Len(input_str) >= 2
    /\ Cardinality(visited) >= 3

\* C4: whenever validate_input returns False the deque is empty.
C4_RejectionExhausts ==
    (pc = "returned" /\ result = FALSE) => states = << >>

\* C5: a dequeued configuration with an empty stack that is not accepting
\* is dropped without an error and the search goes on with the rest of the
\* deque.
C5_EmptyStackHalt ==
    [][(/\ pc = "loop"
        /\ states # << >>
        /\ Head(states)[2] = << >>
        /\ ~(Head(states)[3] = Len(input_str)
             /\ Head(states)[1] \in self.final_states))
       => (pc' = "loop" /\ states' = Tail(states))]_vars

\* C6: on the balanced-parentheses Definition validate_input returns True
\* for "(())" and "" and False for "(" and ")(".
C6_BalancedParens ==
    (self = BalancedParens /\ pc \in {"returned", "raised"}) =>
        /\ input_str \in {<<"(", "(", ")", ")">>, << >>} =>
               (pc = "returned" /\ result = TRUE)
        /\ input_str \in {<<"(">>, <<")", "(">>} =>
               (pc = "returned" /\ result = FALSE)

\* C7: construction from a table that references an undeclared state, as
\* source or as next state, fails, and with a state-kind error when the
\* undeclared states are the only defect; it never succeeds.
C7_UndeclaredStateRejected ==
    (Constructed /\ RefersToUndeclaredState(params)) =>
        /\ pc = "failed"
        /\ (SymbolsDeclared(params) /\ ~AlternativeBesideLambda(params)) =>
               raised = InvalidStateError

\* C8: construction fails when a replacement sequence holds an undeclared
\* stack symbol, so every stack of a query holds declared stack symbols
\* only.
C8_ReplacementSymbolsDeclared ==
    /\ (Constructed /\ ReplacesByUndeclaredSymbol(params)) => pc = "failed"
    /\ InQuery =>
           \A c \in visited \cup {states[n] : n \in DOMAIN states} :
               \A n \in DOMAIN c[2] : c[2][n] \in self.stack_symbols

\* C9: construction fails when a state has an epsilon move and a
\* non-epsilon move keyed on the same stack symbol, with a
\* NondeterminismError when every state and symbol is declared.
C9_SharedKeyRejected ==
    (Constructed /\ SharesStackKey(params)) =>
        /\ pc = "failed"
        /\ AllDeclared(params) => raised = NondeterminismError

\* C10: the non-deterministic PDA class raises no determinism-kind error;
\* a table with an epsilon move and a symbol move sharing a stack key, all
\* of whose states and symbols are declared, is constructed.
C10_NondeterministicTablesAccepted ==
    /\ raised # NondeterminismError
    /\ (Constructed /\ SharesStackKey(params) /\ AllDeclared(params)) =>
           pc # "failed"

\* C11: construction fails whenever an entry is keyed on an undeclared input
\* symbol (other than epsilon) or on an undeclared stack symbol, or the
\* initial stack symbol is undeclared, and the error is InvalidSymbolError
\* when no check that runs earlier fails (the lambda-sibling check, and the
\* initial-state check before that of the initial stack symbol); and no
\* InvalidSymbolError is raised when all of these are declared.
C11_SymbolChecks ==
    /\ (Constructed /\ UndeclaredKeyOrInitialSymbol(params)) =>
           /\ pc = "failed"
           /\ (params.initial_state \in params.states
               /\ ~AlternativeBesideLambda(params)) =>
                  raised = InvalidSymbolError
    /\ (Constructed /\ ~UndeclaredKeyOrInitialSymbol(params)) =>
           raised # InvalidSymbolError

\* The 1-based positions of w that hold a symbol outside the input alphabet.
UndeclaredPositions(slf, w) ==
    {n \in DOMAIN w : w[n] \notin slf.input_symbols}

\* C12: for an input string with a symbol outside the declared input
\* alphabet validate_input returns False and does not raise, and no
\* configuration whose cursor is past such a symbol is ever enqueued.
C12_UndeclaredInputRejected ==
    UndeclaredPositions(self, input_str) # {} =>
        /\ pc \in {"returned", "raised"} =>
               (pc = "returned" /\ result = FALSE)
        /\ InQuery =>
               \A c \in visited \cup {states[n] : n \in DOMAIN states} :
                   \A n \in UndeclaredPositions(self, input_str) : c[3] < n

\* The attributes the first object was built with.
Original == _init_from_formal_params(params)

\* C13: PDA(self) returns an object only after validate_self passed on the
\* copied attributes; the copy and the source hold no container in common,
\* so a container cleared through one of them after the copy leaves the
\* other as it was; and validate_input on the copy ends as validate_input
\* on the source does, for every input.
C13_CopyConstruction ==
    /\ (clone_pc = "ok" /\ mutated # "after_copy") =>
           (validate_self(clone) = {} /\ clone = self)
    /\ clone_pc = "failed" => clone_raised \in validate_self(self)
    /\ clone_pc # "none" =>
           \A f \in MutableFields : refs["clone"][f] # refs["self"][f]
    /\ (clone_pc = "ok" /\ mutated = "after_copy") =>
           (self = Original \/ clone = Original)
    /\ (pc \in {"returned", "raised"} /\ target = "clone") =>
           <<pc, result, raised>> = validate_input(self, input_str)

\* C13 witness: a copy was built and a call on it returned True after
\* consuming input.
C13_Witness ==
    /\ clone_pc = "ok" /\ target = "clone"
    /\ pc = "returned" /\ result = TRUE
    /\ Len(input_str) >= 2

\* C14: no step of a call of validate_input changes an attribute of the
\* object it runs on (nor of any other object), however the call ends, and
\* every call, whatever calls came before it, ends as validate_input ends
\* when run from a fresh deque and visited set on the object as built.
C14_QueryLeavesDefinition ==
    /\ [][(pc = "loop" \/ pc' = "loop") =>
              (self' = self /\ clone' = clone /\ refs' = refs)]_vars
    /\ [](pc \in {"returned", "raised"} =>
              /\ Target = Original
              /\ <<pc, result, raised>> = validate_input(Original, input_str))

\* C14 witness: a call on the first object raised and left the object as it
\* was built.
C14_Witness ==
    /\ pc = "raised" /\ target = "self" /\ self = Original
    /\ Len(input_str) >= 1

\* The configuration at the head of the deque is expanded by the next pass
\* of the loop, and its state has a list of epsilon alternatives.
ExpandsWithEpsilonList ==
    /\ pc = "loop" /\ states # << >>
    /\ ~IsAccepting(Target, input_str, Head(states)[1], Head(states)[3])
    /\ Head(states)[2] # << >>
    /\ Paths(Target, Head(states)[1], "") # << >>

\* C15: when a configuration whose state has an epsilon list is expanded,
\* the successor of every epsilon alternative keyed on the stack top, and
\* after them the successor of every alternative of the current input
\* symbol keyed on the stack top, is on the deque after the pass unless it
\* was visited already.
C15_EpsilonExhaustive ==
    [][ExpandsWithEpsilonList =>
           \A m \in Moves(Target, input_str, Head(states)) :
               \/ m \in visited'
               \/ \E n \in DOMAIN states' : states'[n] = m]_vars

\* C16: within one call no configuration is on the deque twice and none
\* that was expanded already is on the deque again, so no configuration is
\* enqueued or expanded more than once.
C16_Deduplication ==
    pc = "loop" =>
        /\ \A m, n \in DOMAIN states : states[m] = states[n] => m = n
        /\ \A n \in DOMAIN states : states[n] \notin visited

\* C17: the stack object of a configuration on the deque is held by no other
\* configuration on the deque and by none in the visited set, so the
\* in-place change of a successor's stack reaches no other configuration;
\* and a pass of the loop leaves the configurations that stay on the deque
\* and those in the visited set, the expanded one included, as they were.
C17_StackIsolation ==
    /\ [](InQuery =>
              /\ Len(stack_ids.deque) = Len(states)
              /\ \A m, n \in DOMAIN stack_ids.deque :
                     stack_ids.deque[m] = stack_ids.deque[n] => m = n
              /\ \A n \in DOMAIN stack_ids.deque :
                     stack_ids.deque[n] \notin stack_ids.visited)
    /\ [][(pc = "loop" /\ states # << >>) =>
              /\ \A n \in 1..(Len(states) - 1) : states'[n] = states[n + 1]
              /\ visited' = visited \cup {Head(states)}]_vars

\* C17 witness: two successors of one expanded configuration are on the
\* deque with different stacks, both different from the expanded one's.
C17_Witness ==
    /\ pc = "loop" /\ Len(states) >= 2
    /\ states[1][2] # states[2][2]
    /\ \E c \in visited :
           /\ c[2] # states[1][2] /\ c[2] # states[2][2]
           /\ states[1] \in Moves(Target, input_str, c)
           /\ states[2] \in Moves(Target, input_str, c)

\* C18: every configuration a pass of the loop appends to the deque comes
\* from one transition entry keyed on the top X of the expanded stack: its
\* stack is the expanded stack without X followed by the replacement symbols
\* in order (the popped stack when the replacement is empty), and its cursor
\* is the expanded cursor for an epsilon entry and one more for an entry of
\* the current input symbol.
C18_SuccessorComputation ==
    [][(pc = "loop" /\ states # << >>) =>
           \A n \in Len(states)..Len(states') :
               states'[n] \in Moves(Target, input_str, Head(states))]_vars

\* C18 witness: a consuming move with an empty replacement popped a stack
\* of two or more symbols, and its successor is on the deque.
C18_Witness ==
    /\ pc = "loop"
    /\ \E n \in DOMAIN states : \E c \in visited :
           /\ states[n] \in Moves(Target, input_str, c)
           /\ Len(c[2]) >= 2
           /\ states[n][2] = SubSeq(c[2], 1, Len(c[2]) - 1)
           /\ states[n][3] = c[3] + 1

\* The (kind, alternative) pairs applicable to configuration c: kind is
\* epsilon or the input symbol under the cursor, and the alternative, given
\* by its position in the list of that kind, is keyed on the stack top.
ApplicableMoves(slf, w, c) ==
    LET kinds == {""} \cup (IF c[3] < Len(w) THEN {w[c[3] + 1]} ELSE {})
    IN  IF c[2] = << >> THEN {}
        ELSE UNION {{<<kind, k>> :
                        k \in {j \in DOMAIN Paths(slf, c[1], kind) :
                                  c[2][Len(c[2])] \in
                                      DOMAIN Paths(slf, c[1], kind)[j]}} :
                    kind \in kinds}

\* C19: during a call on an object that passed validate_self, every
\* configuration put on the deque has at most one applicable move, and the
\* deque never holds more than one configuration.
C19_AtMostOneMove ==
    InQuery =>
        /\ Len(states) <= 1
        /\ \A c \in visited \cup {states[n] : n \in DOMAIN states} :
               Cardinality(ApplicableMoves(Target, input_str, c)) <= 1

\* C20: every configuration on the deque or in the visited set has a cursor
\* from 0 to the length of the input, so the test index > len(input_str) is
\* never true and input_str[index] is never read out of range; and a pass
\* of the loop appends a successor with a greater cursor only when the
\* expanded cursor is below the length of the input.
C20_CursorBound ==
    /\ [](InQuery =>
              \A c \in visited \cup {states[n] : n \in DOMAIN states} :
                  0 <= c[3] /\ c[3] <= Len(input_str))
    /\ [][(pc = "loop" /\ states # << >>) =>
              \A n \in Len(states)..Len(states') :
                  states'[n][3] > Head(states)[3] =>
                      Head(states)[3] < Len(input_str)]_vars

\* C20 witness: a configuration with the cursor at the end of a non-empty
\* input was expanded without accepting, and the loop went on.
C20_Witness ==
    /\ pc = "loop" /\ Len(input_str) >= 1
    /\ \E c \in visited :
           /\ c[3] = Len(input_str)
           /\ c[2] # << >>
           /\ c[1] \notin Target.final_states

====
